---------------------------- MODULE Spec2Model ----------------------------
(***************************************************************************)
(* Model of the finite-element cell of the notebook src/1.ipynb (a 1-D bar *)
(* assembled element by element, node 0 fixed, one dense linear solve) and *)
(* of the generalized BarFEASolver.solve that spec.md derives from it.     *)
(*                                                                         *)
(* Python floats are modelled as exact rationals <<numerator, denominator>>*)
(* in lowest terms with a positive denominator: rounding is not modelled,  *)
(* so every equality below is an equality of exact arithmetic.             *)
(* Arrays are sequences; node (or index) i of the code is position i + 1.  *)
(***************************************************************************)
EXTENDS Integers, Sequences, FiniteSets

\* ------------------------------------------------------------- bounds
\* Largest num_elements the parameter line of the FEA cell is given.
MaxElements == 3
\* Largest number of elements of a mesh passed to solve.
MaxN == 2
\* Largest number of explicit entries of a loads mapping passed to solve.
MaxLoads == 1
\* Largest number of pairs of a constraint set passed to solve.
MaxConstraints == 2

\* ---------------------------------------------------- float arithmetic
Abs(n) == IF n < 0 THEN -n ELSE n

RECURSIVE GCD(_, _)
GCD(a, b) == IF b = 0 THEN a ELSE GCD(b, a % b)

\* The rational n/d (d # 0) in lowest terms with a positive denominator.
Rat(n, d) ==
  LET g == GCD(Abs(n), Abs(d))
      s == IF d < 0 THEN -1 ELSE 1
  IN <<(s * n) \div g, (s * d) \div g>>

R(n) == <<n, 1>>
Zero == R(0)
One == R(1)

RAdd(x, y) == Rat(x[1] * y[2] + y[1] * x[2], x[2] * y[2])
RSub(x, y) == Rat(x[1] * y[2] - y[1] * x[2], x[2] * y[2])
RMul(x, y) == Rat(x[1] * y[1], x[2] * y[2])
RDiv(x, y) == Rat(x[1] * y[2], x[2] * y[1])
RNeg(x) == <<-x[1], x[2]>>
RAbs(x) == <<Abs(x[1]), x[2]>>
RLt(x, y) == x[1] * y[2] < y[1] * x[2]
RLe(x, y) == x[1] * y[2] <= y[1] * x[2]

\* ------------------------------------------------------ numpy primitives
\* np.zeros(n) and np.zeros((n, n)).
np_zeros(n) == [j \in 1..n |-> Zero]
np_zeros2(n) == [r \in 1..n |-> [c \in 1..n |-> Zero]]

\* F[-1] = value.
SetLast(F, value) == [F EXCEPT ![Len(F)] = value]

\* np.linspace(0, stop, n + 1): 0 + j * (stop / n).
np_linspace(stop, n) == [j \in 1..(n + 1) |-> RMul(R(j - 1), RDiv(stop, R(n)))]

\* A faulty variant of k_local_of: the off-diagonal signs are lost, [[1, 1], [1, 1]] * s.
k_local_of_unsigned(s) ==
  << <<RMul(One, s), RMul(One, s)>>, <<RMul(One, s), RMul(One, s)>> >>

\* np.array([[1, -1], [-1, 1]]) * s.
k_local_of(s) ==
  << <<RMul(One, s), RMul(R(-1), s)>>, <<RMul(R(-1), s), RMul(One, s)>> >>

\* A faulty variant of AddBlock: the block is assigned, K[i:i+2, i:i+2] = k_local.
AddBlock_overwrites(K, i, kl) ==
  [r \in 1..Len(K) |-> [c \in 1..Len(K) |->
     IF r \in {i + 1, i + 2} /\ c \in {i + 1, i + 2}
     THEN kl[r - i][c - i]
     ELSE K[r][c]]]

\* K[i:i+2, i:i+2] += k_local.
AddBlock(K, i, kl) ==
  [r \in 1..Len(K) |-> [c \in 1..Len(K) |->
     IF r \in {i + 1, i + 2} /\ c \in {i + 1, i + 2}
     THEN RAdd(K[r][c], kl[r - i][c - i])
     ELSE K[r][c]]]

\* A faulty variant of DropFirstRowCol: the last row and column go, K[:-1, :-1].
DropLastRowCol(K) ==
  [r \in 1..(Len(K) - 1) |-> [c \in 1..(Len(K) - 1) |-> K[r][c]]]

\* K[1:, 1:] and F[1:].
DropFirstRowCol(K) ==
  [r \in 1..(Len(K) - 1) |-> [c \in 1..(Len(K) - 1) |-> K[r + 1][c + 1]]]
DropFirst(F) == [j \in 1..(Len(F) - 1) |-> F[j + 1]]

\* A faulty variant of np_insert: the value is appended, whatever the index.
np_insert_appends(arr, idx, value) ==
  [j \in 1..(Len(arr) + 1) |-> IF j <= Len(arr) THEN arr[j] ELSE value]

\* np.insert(arr, idx, value).
np_insert(arr, idx, value) ==
  [j \in 1..(Len(arr) + 1) |->
     IF j <= idx THEN arr[j] ELSE IF j = idx + 1 THEN value ELSE arr[j - 1]]

\* ------------------------------------------------------- np.linalg.solve
\* LAPACK gesv: LU factorization with partial pivoting (the first row of largest
\* magnitude in the column), then back substitution; LinAlgError on a zero pivot.
SwapRows(A, p, q) == [A EXCEPT ![p] = A[q], ![q] = A[p]]

RECURSIVE ArgMaxFrom(_, _, _, _)
ArgMaxFrom(A, col, r, best) ==
  IF r > Len(A) THEN best
  ELSE ArgMaxFrom(A, col, r + 1,
                  IF RLt(RAbs(A[best][col]), RAbs(A[r][col])) THEN r ELSE best)

PivotRow(A, col) == ArgMaxFrom(A, col, col + 1, col)

\* A faulty variant of EliminateBelow: the right-hand side column is left as it was.
EliminateBelow_lhs_only(A, col) ==
  [r \in 1..Len(A) |->
     IF r <= col THEN A[r]
     ELSE [c \in 1..Len(A[r]) |->
             IF c > Len(A) THEN A[r][c]
             ELSE RSub(A[r][c], RMul(RDiv(A[r][col], A[col][col]), A[col][c]))]]

\* Row r of the augmented matrix minus (A[r][col] / A[col][col]) times row col.
EliminateBelow(A, col) ==
  [r \in 1..Len(A) |->
     IF r <= col THEN A[r]
     ELSE [c \in 1..Len(A[r]) |->
             RSub(A[r][c], RMul(RDiv(A[r][col], A[col][col]), A[col][c]))]]

\* Forward elimination of the augmented matrix from column col on: the upper
\* triangular system, or <<>> when a pivot is zero.
RECURSIVE Forward(_, _)
Forward(A, col) ==
  IF col > Len(A) THEN A
  ELSE LET B == SwapRows(A, col, PivotRow(A, col))
       IN IF B[col][col] = Zero THEN <<>>
          ELSE Forward(EliminateBelow(B, col), col + 1)

RECURSIVE DotFrom(_, _, _)
DotFrom(row, x, c) ==
  IF c > Len(x) THEN Zero
  ELSE RAdd(RMul(row[c], x[c]), DotFrom(row, x, c + 1))

\* A faulty variant of BackSubst: the division by the diagonal entry is left out.
RECURSIVE BackSubst_undivided(_, _, _)
BackSubst_undivided(U, x, r) ==
  IF r = 0 THEN x
  ELSE LET n == Len(U)
           v == RSub(U[r][n + 1], DotFrom(U[r], x, r + 1))
       IN BackSubst_undivided(U, [x EXCEPT ![r] = v], r - 1)

\* Back substitution: rows r + 1..n of the solution are in x already.
RECURSIVE BackSubst(_, _, _)
BackSubst(U, x, r) ==
  IF r = 0 THEN x
  ELSE LET n == Len(U)
           v == RDiv(RSub(U[r][n + 1], DotFrom(U[r], x, r + 1)), U[r][r])
       IN BackSubst(U, [x EXCEPT ![r] = v], r - 1)

np_linalg_solve(A, b) ==
  LET n == Len(A)
      Aug == [r \in 1..n |-> [c \in 1..(n + 1) |-> IF c <= n THEN A[r][c] ELSE b[r]]]
      U == Forward(Aug, 1)
  IN IF n > 0 /\ U = <<>>
     THEN [ok |-> FALSE, x |-> <<>>]
     ELSE [ok |-> TRUE, x |-> BackSubst(U, np_zeros(n), n)]

\* ------------------------------------------------------- notebook state
\* The kernel's module-level names that the FEA cell reads or writes, and the
\* cells that rebind them. The setup cell binds none of
\* these names and is left out, as is all plotting; of the kinematics cell only
\* its import of numpy matters here.
VARIABLES
  np,             \* np, bound by "import numpy as np"
  pc,             \* position of the kernel: "idle" between cells, else inside the FEA cell
  length,         \* length
  num_elements,   \* num_elements
  force,          \* force
  nodes,          \* nodes
  K,              \* K
  F,              \* F
  i,              \* i, the loop variable
  iter,           \* position of the range(num_elements) iterator
  k_local,        \* k_local
  displacements,  \* displacements
  M,              \* M (modal cell)
  ref,            \* history: the inputs and displacements of the first completed
                  \* run of the FEA cell, and the other cells run since
  args,           \* the arguments of the last call of solve
  result          \* what that call returned

vars == <<np, pc, length, num_elements, force, nodes, K, F, i, iter, k_local,
          displacements, M, ref, args, result>>

\* A name not bound yet.
Unbound == <<>>
\* The numpy module.
Numpy == <<"numpy">>
\* What result holds before any call of solve.
NoCall == [err |-> "nocall", field |-> <<>>]
\* The sympy expression -k*q - m*g.
Symbolic == <<"-k*q - m*g">>

\* Values the parameter lines of the FEA cell are edited to; the notebook's own
\* are num_elements = 10, length = 1.0, force = -5.0.
Lengths == {<<1, 2>>, <<1, 1>>}
Forces == {R(-5), R(3)}
ElementCounts == 1..MaxElements

Init ==
  /\ np = Unbound
  /\ pc = "idle"
  /\ length = Unbound /\ num_elements = Unbound /\ force = Unbound
  /\ nodes = Unbound /\ K = Unbound /\ F = Unbound
  /\ i = Unbound /\ iter = 0 /\ k_local = Unbound
  /\ displacements = Unbound /\ M = Unbound
  /\ ref = <<>>
  /\ args = <<>> /\ result = NoCall

\* ------------------------------------------------------------ FEA cell
\* import numpy as np; length = ...; num_elements = ...; force = ...
Params ==
  /\ pc = "idle"
  /\ np' = Numpy
  /\ \E l \in Lengths, n \in ElementCounts, f \in Forces :
       /\ length' = l
       /\ num_elements' = n
       /\ force' = f
  /\ pc' = "nodes"
  /\ UNCHANGED <<nodes, K, F, i, iter, k_local, displacements, M, ref, args, result>>

\* nodes = np.linspace(0, length, num_elements + 1)
Nodes ==
  /\ pc = "nodes"
  /\ nodes' = np_linspace(length, num_elements)
  /\ pc' = "alloc"
  /\ UNCHANGED <<np, length, num_elements, force, K, F, i, iter, k_local,
                 displacements, M, ref, args, result>>

\* A faulty variant of NewK: the K the kernel holds is kept when it has the shape asked for.
NewK_reuses(n) == IF Len(K) = n THEN K ELSE np_zeros2(n)

\* K = np.zeros((num_elements + 1, num_elements + 1))
NewK(n) == np_zeros2(n)

\* K = np.zeros(...); F = np.zeros(...); F[-1] = force; the for loop starts.
Alloc ==
  /\ pc = "alloc"
  /\ K' = NewK(num_elements + 1)
  /\ F' = SetLast(np_zeros(num_elements + 1), force)
  /\ iter' = 0
  /\ pc' = "loop"
  /\ UNCHANGED <<np, length, num_elements, force, nodes, i, k_local,
                 displacements, M, ref, args, result>>

\* One iteration of: for i in range(num_elements): k_local = ...; K[...] += k_local
LoopStep ==
  /\ pc = "loop"
  /\ iter < num_elements
  /\ i' = iter
  /\ k_local' = k_local_of(RDiv(R(num_elements), length))
  /\ K' = AddBlock(K, i', k_local')
  /\ iter' = iter + 1
  /\ pc' = IF iter' < num_elements THEN "loop" ELSE "bc"
  /\ UNCHANGED <<np, length, num_elements, force, nodes, F, displacements, M, ref,
                 args, result>>

\* K = K[1:, 1:]; F = F[1:]
BoundaryCondition ==
  /\ pc = "bc"
  /\ K' = DropFirstRowCol(K)
  /\ F' = DropFirst(F)
  /\ pc' = "solve"
  /\ UNCHANGED <<np, length, num_elements, force, nodes, i, iter, k_local,
                 displacements, M, ref, args, result>>

\* displacements = np.linalg.solve(K, F); a LinAlgError ends the cell.
Solve ==
  /\ pc = "solve"
  /\ LET r == np_linalg_solve(K, F)
     IN IF r.ok
        THEN displacements' = r.x /\ pc' = "insert"
        ELSE displacements' = displacements /\ pc' = "idle"
  /\ UNCHANGED <<np, length, num_elements, force, nodes, K, F, i, iter, k_local,
                 M, ref, args, result>>

\* displacements = np.insert(displacements, 0, 0)
Insert ==
  /\ pc = "insert"
  /\ displacements' = np_insert(displacements, 0, Zero)
  /\ pc' = "plot"
  /\ UNCHANGED <<np, length, num_elements, force, nodes, K, F, i, iter, k_local,
                 M, ref, args, result>>

\* The inputs of the run the kernel is in, and what it leaves to compare.
RunInputs == <<length, num_elements, force>>
ThisRun == <<[in |-> RunInputs, out |-> displacements, since |-> {}]>>
\* The history with `cell` added to the cells run since the run it holds.
Noted(cell) ==
  IF ref = <<>> THEN ref ELSE <<[ref[1] EXCEPT !.since = @ \cup {cell}]>>

\* plt.plot(nodes, displacements, ...); the cell ends. The history holds the
\* first completed run.
Plot ==
  /\ pc = "plot"
  /\ pc' = "idle"
  /\ ref' = IF ref # <<>> THEN ref ELSE ThisRun
  /\ UNCHANGED <<np, length, num_elements, force, nodes, K, F, i, iter, k_local,
                 displacements, M, args, result>>

\* ------------------------------------------------------- the other cells
\* import numpy as np; ...; sol = odeint(...): of the names above only np is bound.
KinematicsCell ==
  /\ pc = "idle"
  /\ np' = Numpy
  /\ UNCHANGED <<pc, length, num_elements, force, nodes, K, F, i, iter, k_local,
                 displacements, M, ref, args, result>>

\* K = np.array([[12, -6], [-6, 4]]); M = np.array([[2, 0], [0, 1]]);
\* w, v = eigh(K, M) (not modelled); for i in range(len(w)): plot.
\* With np unbound the first line raises NameError and nothing is rebound.
ModalCell ==
  /\ pc = "idle"
  /\ np # Unbound
  /\ K' = << <<R(12), R(-6)>>, <<R(-6), R(4)>> >>
  /\ M' = << <<R(2), R(0)>>, <<R(0), R(1)>> >>
  /\ i' = 1
  /\ ref' = Noted("modal")
  /\ UNCHANGED <<np, pc, length, num_elements, force, nodes, F, iter, k_local,
                 displacements, args, result>>

\* force = -k * q - m * g
MultibodyCell ==
  /\ pc = "idle"
  /\ force' = Symbolic
  /\ ref' = Noted("multibody")
  /\ UNCHANGED <<np, pc, length, num_elements, nodes, K, F, i, iter, k_local,
                 displacements, M, args, result>>

Next ==
  \/ Params \/ Nodes \/ Alloc \/ LoopStep \/ BoundaryCondition \/ Solve
  \/ Insert \/ Plot \/ KinematicsCell \/ ModalCell \/ MultibodyCell

Spec == Init /\ [][Next]_vars

\* ---------------------------------------------- the generalized solve
\* BarFEASolver.solve of spec.md 4.1: the cell's steps with a per-element
\* stiffness, a loads mapping and a set of (node, prescribed value) pairs,
\* composed from the primitives above.
NumElements(mesh) == Len(mesh) - 1

MeshValid(mesh) ==
  /\ NumElements(mesh) >= 1
  /\ \A j \in 1..NumElements(mesh) : RLt(mesh[j], mesh[j + 1])

ConstrainedNodes(constraints) == {p[1] : p \in constraints}

ConstraintsValid(N, constraints) ==
  /\ constraints # {}
  /\ \A p \in constraints : p[1] \in 0..N
  /\ \A p, q \in constraints : p[1] = q[1] => p = q

Prescribed(constraints, c) == (CHOOSE p \in constraints : p[1] = c)[2]

\* Steps 1 and 2: the zero matrix, then every element's local block added.
RECURSIVE AssembleFrom(_, _, _)
AssembleFrom(Kacc, elementStiffness, j) ==
  IF j >= Len(elementStiffness) THEN Kacc
  ELSE AssembleFrom(AddBlock(Kacc, j, k_local_of(elementStiffness[j + 1])),
                    elementStiffness, j + 1)

Assemble(elementStiffness) ==
  AssembleFrom(np_zeros2(Len(elementStiffness) + 1), elementStiffness, 0)

\* Steps 1 and 3: the zero vector with every explicit load entered.
LoadVector(N, loads) ==
  [j \in 1..(N + 1) |-> IF (j - 1) \in DOMAIN loads THEN loads[j - 1] ELSE Zero]

\* The nodes of 0..N in `keep`, ascending.
NodeSeq(N, keep) == SelectSeq([j \in 1..(N + 1) |-> j - 1], LAMBDA v : v \in keep)

\* Step 4: K[free, free], and F[free] less K[free, c] * d for every constraint.
ReducedK(Kfull, free) ==
  [r \in 1..Len(free) |-> [c \in 1..Len(free) |-> Kfull[free[r] + 1][free[c] + 1]]]

RECURSIVE PrescribedLoad(_, _, _, _, _)
PrescribedLoad(Kfull, node, fixed, constraints, k) ==
  IF k > Len(fixed) THEN Zero
  ELSE RAdd(RMul(Kfull[node + 1][fixed[k] + 1], Prescribed(constraints, fixed[k])),
            PrescribedLoad(Kfull, node, fixed, constraints, k + 1))

ReducedF(Kfull, Ffull, free, fixed, constraints) ==
  [r \in 1..Len(free) |->
     RSub(Ffull[free[r] + 1], PrescribedLoad(Kfull, free[r], fixed, constraints, 1))]

\* Step 6: every prescribed value inserted at its node, in ascending node order.
RECURSIVE Reinsert(_, _, _, _)
Reinsert(x, fixed, constraints, k) ==
  IF k > Len(fixed) THEN x
  ELSE Reinsert(np_insert(x, fixed[k], Prescribed(constraints, fixed[k])),
                fixed, constraints, k + 1)

Failure(name) == [err |-> name, field |-> <<>>]

solve(mesh, elementStiffness, loads, constraints) ==
  LET N == NumElements(mesh)
  IN IF ~MeshValid(mesh) THEN Failure("InvalidMeshError")
     ELSE IF Len(elementStiffness) # N THEN Failure("DimensionMismatchError")
     ELSE IF ~ConstraintsValid(N, constraints) THEN Failure("InvalidConstraintError")
     ELSE LET Kfull == Assemble(elementStiffness)
              Ffull == LoadVector(N, loads)
              fixed == NodeSeq(N, ConstrainedNodes(constraints))
              free == NodeSeq(N, (0..N) \ ConstrainedNodes(constraints))
              r == np_linalg_solve(ReducedK(Kfull, free),
                                   ReducedF(Kfull, Ffull, free, fixed, constraints))
          IN IF ~r.ok THEN Failure("SingularSystemError")
             ELSE [err |-> "none", field |-> Reinsert(r.x, fixed, constraints, 1)]

\* ------------------------------------------------------ calls of solve
\* Meshes of 0..MaxN unit elements, and one whose positions do not increase.
UniformMesh(N) == [j \in 1..(N + 1) |-> R(j - 1)]
Meshes == {UniformMesh(N) : N \in 0..MaxN} \cup {<<Zero, Zero>>}

Stiffnesses == {One, R(2)}
\* Every stiffness sequence of the right length, and one too short and one too long.
StiffnessSeqs(N) ==
  [1..N -> Stiffnesses]
    \cup {[j \in 1..(N + 1) |-> One]}
    \cup (IF N >= 1 THEN {[j \in 1..(N - 1) |-> One]} ELSE {})

LoadValues == {R(-5), R(3)}
LoadMaps(N) ==
  UNION {[D -> LoadValues] : D \in {S \in SUBSET (0..N) : Cardinality(S) <= MaxLoads}}

\* Pairs on the nodes 0..N and on N + 1, which is out of range.
PrescribedValues == {Zero, One}
ConstraintSets(N) ==
  {S \in SUBSET ((0..(N + 1)) \X PrescribedValues) : Cardinality(S) <= MaxConstraints}

\* The arguments a caller holds before the call.
ArgumentSets ==
  UNION {[mesh : {mesh}, elementStiffness : StiffnessSeqs(NumElements(mesh)),
          loads : LoadMaps(NumElements(mesh)),
          constraints : ConstraintSets(NumElements(mesh))] : mesh \in Meshes}

SolveInit ==
  /\ np = Unbound
  /\ pc = "idle"
  /\ length = Unbound /\ num_elements = Unbound /\ force = Unbound
  /\ nodes = Unbound /\ K = Unbound /\ F = Unbound
  /\ i = Unbound /\ iter = 0 /\ k_local = Unbound
  /\ displacements = Unbound /\ M = Unbound
  /\ ref = <<>>
  /\ \E a \in ArgumentSets : args = <<a>>
  /\ result = NoCall

\* result = solve(mesh, elementStiffness, loads, constraints)
CallSolve ==
  /\ result = NoCall
  /\ result' = solve(args[1].mesh, args[1].elementStiffness, args[1].loads,
                     args[1].constraints)
  /\ UNCHANGED <<np, args, pc, length, num_elements, force, nodes, K, F, i, iter,
                 k_local, displacements, M, ref>>

SolveSpec == SolveInit /\ [][CallSolve]_vars

\* ================================================================ claims
\* The FEA cell has computed displacements and has not ended yet.
CellDone == pc = "plot"
\* The stiffness of every element of the cell's bar: num_elements / length.
CellStiffness == RDiv(R(num_elements), length)

\* solve has been called, and on arguments that pass its validation.
Called == result # NoCall
CallN == NumElements(args[1].mesh)
ValidCall ==
  /\ MeshValid(args[1].mesh)
  /\ Len(args[1].elementStiffness) = CallN
  /\ ConstraintsValid(CallN, args[1].constraints)
SingleConstraint == Cardinality(args[1].constraints) = 1
TheConstraint == CHOOSE p \in args[1].constraints : TRUE

\* C1: a call of solve on valid arguments with exactly one constraint (c, d)
\* returns a displacement field of length N + 1 whose entry at node c is d.
C1_ConstrainedNodeHoldsPrescribedValue ==
  (Called /\ ValidCall /\ SingleConstraint) =>
     /\ result.err = "none"
     /\ Len(result.field) = CallN + 1
     /\ result.field[TheConstraint[1] + 1] = TheConstraint[2]

\* A call constraining an interior node to a non-zero value, under a load.
C1_Witness ==
  /\ Called /\ ValidCall /\ SingleConstraint
  /\ CallN = 2
  /\ TheConstraint = <<1, One>>
  /\ DOMAIN args[1].loads # {}
  /\ result.err = "none"

\* C2: the cell run with one element of stiffness k and force F at node 1
\* leaves displacement 0 at node 0 and F / k at node 1.
C2_SingleElementBar ==
  (CellDone /\ num_elements = 1) =>
     displacements = <<Zero, RDiv(force, CellStiffness)>>

\* The run with k = 2 and F = -5, which gives -2.5.
C2_Witness ==
  /\ CellDone /\ num_elements = 1
  /\ CellStiffness = R(2) /\ force = R(-5)
  /\ displacements = <<Zero, <<-5, 2>>>>

\* C3 as stated: node i of the uniform bar, fixed at node 0 and loaded with F
\* at the last node, is displaced by -F * i / k.
C3_Original_NegatedSign ==
  CellDone =>
     \A n \in 0..num_elements :
        displacements[n + 1] = RDiv(RMul(RNeg(force), R(n)), CellStiffness)

\* C3 amended: node i is displaced by F * i / k (the sign of F), which is
\* monotonic in i and zero at node 0.
C3_UniformBarLinearField ==
  CellDone =>
     /\ \A n \in 0..num_elements :
          displacements[n + 1] = RDiv(RMul(force, R(n)), CellStiffness)
     /\ \/ \A n \in 1..num_elements : RLe(displacements[n], displacements[n + 1])
        \/ \A n \in 1..num_elements : RLe(displacements[n + 1], displacements[n])
     /\ displacements[1] = Zero

\* A run of the longest bar under a non-zero force.
C3_Witness ==
  /\ CellDone /\ num_elements = MaxElements /\ force = R(-5)
  /\ displacements[num_elements + 1] # Zero

\* ------------------------------------------------- helpers of the claims
\* The determinant, by elimination on the first column: the sign of the row
\* exchange times the pivot times the determinant of what remains; 1 for the
\* empty matrix.
RECURSIVE FirstNonZero(_, _)
FirstNonZero(A, r) ==
  IF r > Len(A) THEN 0 ELSE IF A[r][1] # Zero THEN r ELSE FirstNonZero(A, r + 1)

Remainder(A, p) ==
  [r \in 1..(Len(A) - 1) |->
     LET row == IF r < p THEN r ELSE r + 1
         factor == RDiv(A[row][1], A[p][1])
     IN [c \in 1..(Len(A) - 1) |->
           IF A[row][1] = Zero THEN A[row][c + 1]
           ELSE RSub(A[row][c + 1], RMul(factor, A[p][c + 1]))]]

RECURSIVE Det(_)
Det(A) ==
  IF Len(A) = 0 THEN One
  ELSE LET p == FirstNonZero(A, 1)
       IN IF p = 0 THEN Zero
          ELSE LET d == RMul(A[p][1], Det(Remainder(A, p)))
               IN IF p % 2 = 1 THEN d ELSE RNeg(d)

\* The rows and columns of A at the nodes of `keep`, in ascending order.
Principal(A, keep) ==
  LET idx == SelectSeq([j \in 1..Len(A) |-> j - 1], LAMBDA v : v \in keep)
  IN [r \in 1..Len(idx) |-> [c \in 1..Len(idx) |-> A[idx[r] + 1][idx[c] + 1]]]

RowSum(A, r) == DotFrom(A[r], [c \in 1..Len(A) |-> One], 1)
Dot(row, x) == DotFrom(row, x, 1)

\* C4: a call of solve with an empty constraint set returns no displacement
\* field; on arguments otherwise valid it ends in InvalidConstraintError, and
\* the linear solve of the unreduced system, were validation left to it, raises.
C4_EmptyConstraintSetFails ==
  (Called /\ args[1].constraints = {}) =>
     /\ result.err # "none"
     /\ result.field = <<>>
     /\ (MeshValid(args[1].mesh) /\ Len(args[1].elementStiffness) = CallN) =>
          /\ result.err \in {"InvalidConstraintError", "SingularSystemError"}
          /\ ~np_linalg_solve(Assemble(args[1].elementStiffness),
                              LoadVector(CallN, args[1].loads)).ok

\* A call without constraints on a loaded two-element bar of unequal stiffness.
C4_Witness ==
  /\ Called /\ args[1].constraints = {}
  /\ MeshValid(args[1].mesh) /\ CallN = 2
  /\ args[1].elementStiffness = <<One, R(2)>>
  /\ DOMAIN args[1].loads # {}
  /\ result.err = "InvalidConstraintError"

\* C6: a run of the FEA cell with the inputs of an earlier completed run leaves
\* the displacements that run left, whatever cells ran in between.
C6_RerunGivesSameDisplacements ==
  (CellDone /\ ref # <<>> /\ ref[1].in = RunInputs) =>
     displacements = ref[1].out

\* A second run on the inputs of an earlier one, with the modal cell (K rebound)
\* and the multibody cell (force rebound) run in between.
C6_Witness ==
  /\ CellDone /\ ref # <<>> /\ ref[1].in = RunInputs
  /\ ref[1].since = {"modal", "multibody"}
  /\ num_elements >= 2

\* C7: the assembled K is singular with every row summing to zero, every
\* reduction of it by a non-empty set of nodes is non-singular, and the linear
\* solve of the system reduced by node 0 does not fail.
C7_SingularBeforeNonSingularAfter ==
  /\ pc = "bc" =>
       /\ \A r \in 1..Len(K) : RowSum(K, r) = Zero
       /\ Det(K) = Zero
       /\ \A S \in (SUBSET (0..num_elements)) \ {{}} :
            Det(Principal(K, (0..num_elements) \ S)) # Zero
  /\ pc = "solve" => (Det(K) # Zero /\ np_linalg_solve(K, F).ok)

\* The longest bar assembled, before node 0 is eliminated.
C7_Witness == pc = "bc" /\ num_elements = MaxElements /\ Len(K) = MaxElements + 1

\* The stiffness of element e of the cell's bar if e is one of its elements.
ElementK(e, processed) == IF e \in 0..(processed - 1) THEN CellStiffness ELSE Zero

\* C8: with all elements processed K is symmetric and tridiagonal, K[n][n] the
\* sum of the stiffnesses of the elements at node n, K[n][n+1] = K[n+1][n] the
\* negated stiffness of element n, all else zero; with only the first j
\* processed, the rows and columns above j are zero.
C8_AssembledTridiagonal ==
  /\ pc = "bc" =>
       \A r, c \in 0..num_elements :
          /\ K[r + 1][c + 1] = K[c + 1][r + 1]
          /\ (r = c) => K[r + 1][c + 1] =
                RAdd(ElementK(r - 1, num_elements), ElementK(r, num_elements))
          /\ (c = r + 1) => K[r + 1][c + 1] = RNeg(ElementK(r, num_elements))
          /\ (c > r + 1) => K[r + 1][c + 1] = Zero
  /\ pc = "loop" =>
       \A r, c \in 0..num_elements :
          (r > iter \/ c > iter) => K[r + 1][c + 1] = Zero

\* The longest bar fully assembled: an interior node carries two elements.
C8_Witness ==
  /\ pc = "bc" /\ num_elements = MaxElements
  /\ K[2][2] = RAdd(CellStiffness, CellStiffness)
  /\ K[1][2] = RNeg(CellStiffness)

\* C9: the field solve returns for one constraint (c, d) balances every free
\* node, row n of the assembled K times the field being the load at n; for
\* d = 0 the reduced load vector is the loads of the free nodes unchanged.
C9_EquilibriumAtFreeNodes ==
  (Called /\ ValidCall /\ SingleConstraint) =>
     LET Kfull == Assemble(args[1].elementStiffness)
         Ffull == LoadVector(CallN, args[1].loads)
         c == TheConstraint[1]
         free == NodeSeq(CallN, (0..CallN) \ {c})
     IN /\ result.err = "none"
        /\ \A n \in (0..CallN) \ {c} : Dot(Kfull[n + 1], result.field) = Ffull[n + 1]
        /\ (TheConstraint[2] = Zero) =>
              ReducedF(Kfull, Ffull, free, <<c>>, args[1].constraints) =
                 [r \in 1..Len(free) |-> Ffull[free[r] + 1]]

\* A call prescribing a non-zero value at one end, with a load inside the bar.
C9_Witness ==
  /\ Called /\ ValidCall /\ SingleConstraint
  /\ CallN = 2
  /\ TheConstraint = <<2, One>>
  /\ DOMAIN args[1].loads = {1}
  /\ result.err = "none"

\* C10: solve called on the cell's mesh with stiffness N / L in every element,
\* the force at the last node and the constraint (node 0, value 0) returns the
\* displacements the cell computes.
C10_SolveAgreesWithCell ==
  CellDone =>
     solve(nodes, [e \in 1..num_elements |-> CellStiffness],
           [n \in {num_elements} |-> force], {<<0, Zero>>})
       = [err |-> "none", field |-> displacements]

\* A completed run of the longest bar under a non-zero force.
C10_Witness ==
  /\ CellDone /\ num_elements = MaxElements /\ force = R(3)
  /\ Len(displacements) = MaxElements + 1

====
